---- MODULE Spec2Model ----
(***************************************************************************)
(* Model of src/src/App.jsx: the address-book single-page client.          *)
(*                                                                         *)
(* State: the React state of App (contacts, loading, error, view,          *)
(* showCollection, search, libLoaded, formData), the list computed by the  *)
(* last render (filteredContacts), the requests in flight with the values  *)
(* their continuations captured, the import loops in progress, the         *)
(* exported file, and the REST backend the requests are sent to.           *)
(*                                                                         *)
(* Strings that the code inspects character by character (names, the       *)
(* search box) are sequences of one-character strings; the other strings   *)
(* (method type and val, spreadsheet cells) are TLA+ strings.              *)
(***************************************************************************)
EXTENDS Integers, Sequences, FiniteSets, TLC

(* ------------------------------ bounds --------------------------------- *)
\* A run draws its budget at Init from Budgets: how many saves, toggles,
\* confirmed deletes, imports and touches (a draft edit, a change of the search
\* box or of the collection mode, an export) the user makes in it.
MaxSaves == 1
MaxToggles == 2
MaxDeletes == 1
MaxTouches == 1
\* draft edits in the run that stays in the form
MaxEdits == 2
\* largest number of methods a draft may hold (addMethodField is disabled beyond it)
MaxMethods == 2
\* largest number of rows of an imported file a user authors by hand
MaxRows == 2
\* number of imports started in one run
MaxImports == 1

(* --------------------------- JavaScript values ------------------------- *)
\* null / a missing id: both are falsy where the code tests formData.id
NullId == 0
\* Date.now(): the first client-generated id; server ids and the placeholder
\* ids are small, timestamps are not
ClientIdBase == 100
\* the value of a property that is absent (row["Full Name"] of a row without
\* that column): a one-element sequence holding a token that is no character
Undefined == <<"<undefined>">>
\* an absent spreadsheet cell
Absent == "<absent>"
\* a spreadsheet cell that holds the number 0 (sheet_to_json yields numbers for
\* numeric cells): a token that is none of the strings a cell may hold
Zero == "<number 0>"

UpperCase == <<"A", "B", "C", "D", "E", "F", "G", "H", "I", "J", "K", "L", "M",
               "N", "O", "P", "Q", "R", "S", "T", "U", "V", "W", "X", "Y", "Z">>
LowerCase == <<"a", "b", "c", "d", "e", "f", "g", "h", "i", "j", "k", "l", "m",
               "n", "o", "p", "q", "r", "s", "t", "u", "v", "w", "x", "y", "z">>

LowerOf ==
    [ch \in {UpperCase[i] : i \in 1..Len(UpperCase)} |->
        LowerCase[CHOOSE i \in 1..Len(UpperCase) : UpperCase[i] = ch]]

\* String.prototype.toLowerCase on one character
LowerChar(ch) == IF ch \in DOMAIN LowerOf THEN LowerOf[ch] ELSE ch

\* String.prototype.toLowerCase
ToLowerCase(s) == [i \in 1..Len(s) |-> LowerChar(s[i])]

\* String.prototype.includes
Includes(hay, needle) ==
    \E i \in 0..(Len(hay) - Len(needle)) :
        SubSeq(hay, i + 1, i + Len(needle)) = needle

\* truthiness of a name: "" and undefined are falsy
TruthyName(n) == n # <<>> /\ n # Undefined
\* truthiness of a cell: "", the number 0 and an absent cell are falsy
TruthyCell(v) == v # "" /\ v # Absent /\ v # Zero

(* ------------------------------ inputs --------------------------------- *)
\* what the user types into the name box
NameInputs == {<<>>, <<"A", "b">>}
\* what the user types into the search box
SearchInputs == {<<>>, <<"a">>, <<"B">>}
\* the options of the method type select (lines 333-336)
MethodTypes == {"Phone", "Email", "Address", "WeChat"}
\* the options the model's user picks in the select
TypeInputs == {"Phone", "Email"}
\* what the user types into a method's value box
ValInputs == {"", "5"}

Method(t, v) == [type |-> t, val |-> v]
Contact(i, n, f, ms) == [id |-> i, name |-> n, isFav |-> f, methods |-> ms]

\* the collections the backend may hold when the page is opened
ServerInits ==
    { <<>>,
      <<Contact(1, <<"a">>, FALSE, <<Method("Phone", "1"), Method("Email", "")>>),
        Contact(2, <<"B", "a">>, TRUE, <<>>)>> }

\* the placeholder dataset of fetchContacts' catch branch
Placeholder ==
    << Contact(1, <<"A", "l", "i", "c", "e", " ", "C", "h", "e", "n", " ",
                    "(", "O", "f", "f", "l", "i", "n", "e", ")">>,
               TRUE, <<Method("Phone", "123-456-7890")>>),
       Contact(2, <<"B", "o", "b", " ", "J", "o", "n", "e", "s", " ",
                    "(", "O", "f", "f", "l", "i", "n", "e", ")">>,
               FALSE, <<Method("Email", "bob@example.com")>>) >>

\* the draft of a new contact (useState at line 19, openForm at line 155)
BlankDraft(fav) == Contact(NullId, <<>>, fav, <<Method("Phone", "")>>)

(* --------------------------- sequence helpers -------------------------- *)
Ids(cs) == {cs[i].id : i \in 1..Len(cs)}
Range(s) == {s[i] : i \in 1..Len(s)}
RemoveAt(s, k) == [i \in 1..(Len(s) - 1) |-> IF i < k THEN s[i] ELSE s[i + 1]]
\* a contact without its id: what "same content" compares
Content(c) == [name |-> c.name, isFav |-> c.isFav, methods |-> c.methods]
Contents(cs) == [i \in 1..Len(cs) |-> Content(cs[i])]

(* ---------------------------- Filter/Sort ------------------------------ *)
\* mutant of MatchesFilter: the search string is not lowercased
MatchesFilterExact(c, s, sc) ==
    LET matchesSearch == Includes(ToLowerCase(c.name), s)
        matchesCollection == IF sc THEN c.isFav ELSE TRUE
    IN  matchesSearch /\ matchesCollection

\* the filter callback of filteredContacts
MatchesFilter(c, s, sc) ==
    LET matchesSearch == Includes(ToLowerCase(c.name), ToLowerCase(s))
        matchesCollection == IF sc THEN c.isFav ELSE TRUE
    IN  matchesSearch /\ matchesCollection

\* mutant of Compare: the signs are swapped
CompareSwapped(a, b) == IF b.isFav = a.isFav THEN 0 ELSE IF b.isFav THEN -1 ELSE 1

\* the comparator of filteredContacts' sort
Compare(a, b) == IF b.isFav = a.isFav THEN 0 ELSE IF b.isFav THEN 1 ELSE -1

\* Array.prototype.sort is stable: x goes behind every element that does not
\* compare greater than it
RECURSIVE InsertSorted(_, _)
InsertSorted(sorted, x) ==
    IF sorted = <<>> THEN <<x>>
    ELSE IF Compare(sorted[Len(sorted)], x) <= 0 THEN Append(sorted, x)
    ELSE Append(InsertSorted(SubSeq(sorted, 1, Len(sorted) - 1), x),
                sorted[Len(sorted)])

RECURSIVE SortContacts(_)
SortContacts(cs) ==
    IF cs = <<>> THEN <<>>
    ELSE InsertSorted(SortContacts(SubSeq(cs, 1, Len(cs) - 1)), cs[Len(cs)])

\* c.name.toLowerCase() throws when a name is undefined
RenderThrows(cs) == \E i \in 1..Len(cs) : cs[i].name = Undefined

\* const filteredContacts = contacts.filter(...).sort(...)
FilteredContacts(cs, s, sc) ==
    IF RenderThrows(cs) THEN <<>>
    ELSE SortContacts(SelectSeq(cs, LAMBDA c : MatchesFilter(c, s, sc)))

(* --------------------------- Spreadsheet rows -------------------------- *)
\* row[`Method ${k} Type`] / row[`Method ${k} Value`]: absent beyond the last column
Cell(cells, k) == IF k \in 1..Len(cells) THEN cells[k] ELSE Absent

Row(n, f, ts, vs) == [FullName |-> n, IsFavorite |-> f, MType |-> ts, MValue |-> vs]

\* mutant of ExportRow: the favorite flag is written in lower case
ExportRowLower(c) ==
    Row(c.name,
        IF c.isFav THEN "yes" ELSE "no",
        [i \in 1..Len(c.methods) |-> c.methods[i].type],
        [i \in 1..Len(c.methods) |-> c.methods[i].val])

\* the callback of contacts.map in handleExport: one row per contact
ExportRow(c) ==
    Row(c.name,
        IF c.isFav THEN "Yes" ELSE "No",
        [i \in 1..Len(c.methods) |-> c.methods[i].type],
        [i \in 1..Len(c.methods) |-> c.methods[i].val])

ExportRows(cs) == [i \in 1..Len(cs) |-> ExportRow(cs[i])]

\* the while loop of handleImport: scan Method 1 Type, Method 2 Type, ... until
\* a falsy cell; a falsy value becomes ""
RECURSIVE ScanMethods(_, _)
ScanMethods(row, i) ==
    IF TruthyCell(Cell(row.MType, i))
    THEN <<Method(Cell(row.MType, i),
                  IF TruthyCell(Cell(row.MValue, i)) THEN Cell(row.MValue, i) ELSE "")>>
         \o ScanMethods(row, i + 1)
    ELSE <<>>

\* newContact of handleImport (it has no id)
ImportContact(row) ==
    [name |-> row.FullName, isFav |-> (row.IsFavorite = "Yes"), methods |-> ScanMethods(row, 1)]

\* rows a user authors by hand
UserRows ==
    { Row(<<"C", "a", "r", "l">>, "Yes", <<"Phone">>, <<"555">>),
      Row(Undefined, "yes", <<"Email", "", "Phone">>, <<Absent, "x", "y">>),
      Row(<<"D">>, "No", <<"Phone", "Email">>, <<Zero, "d">>) }

RECURSIVE SeqsUpTo(_, _)
SeqsUpTo(S, n) ==
    IF n = 0 THEN {<<>>}
    ELSE SeqsUpTo(S, n - 1) \cup
         {Append(q, x) : q \in {p \in SeqsUpTo(S, n - 1) : Len(p) = n - 1}, x \in S}

UserFiles == SeqsUpTo(UserRows, MaxRows)

(* -------------------------------- state -------------------------------- *)
VARIABLES
    contacts,           \* useState([])
    loading,            \* useState(true)
    error,              \* useState(null)
    view,               \* useState("list")
    showCollection,     \* useState(false)
    search,             \* useState("")
    libLoaded,          \* useState(false)
    formData,           \* useState({id: null, ...})
    alias,              \* which method objects of formData are objects of the collection
    filteredContacts,   \* the list computed by the last render
    crashed,            \* a render threw: React unmounted the tree
    clock,              \* Date.now()
    net,                \* requests in flight, with what their continuations captured
    nextReq,            \* number of the next request
    quota,              \* what the user may still do in this run
    imports,            \* the reader.onload loops, one per import started
    file,               \* address_book.xlsx as last written by handleExport
    server,             \* the backend's collection
    nextServerId,       \* the backend's next id
    lastOp,             \* history: the handler that ran in the last step
    prevToggle,         \* history: lastOp of the step before, when it was a toggleFav
    atOpen,             \* history: the collection when the form was opened
    exported,           \* history: the collection that file was exported from
    failedDeletes,      \* history: the ids whose DELETE failed
    anyFailed,          \* history: some request has failed
    saved               \* history: a Save has been accepted

uiVars == <<contacts, loading, error, view, showCollection, search, libLoaded,
            formData, alias, filteredContacts, crashed>>
envVars == <<clock, net, nextReq, quota, imports, file, server, nextServerId>>
histVars == <<lastOp, prevToggle, atOpen, exported, failedDeletes, anyFailed, saved>>
vars == <<uiVars, envVars, histVars>>

NoBody == [name |-> <<>>, isFav |-> FALSE, methods |-> <<>>]
NoFile == <<Row(<<>>, "<no file>", <<>>, <<>>)>>

Request(n, k, o, i, b, e, p) ==
    [rid |-> n, kind |-> k, origin |-> o, id |-> i, body |-> b, wasEmpty |-> e,
     imp |-> p, phase |-> "sent", data |-> <<>>]

Op(n, i, f) == [name |-> n, id |-> i, fav |-> f]

NoOp == [name |-> "other", id |-> NullId, fav |-> FALSE, sent |-> {}]

\* the handlers the history tells apart; every other step is recorded as "other"
Recorded == {"toggleFav", "cancel", "saveRejected", "deleteDeclined"}

\* the history kept by every step: what ran, and the toggle before it
Hist(op) ==
    /\ lastOp' = IF op.name \in Recorded
                 THEN [name |-> op.name, id |-> op.id, fav |-> op.fav, sent |-> net' \ net]
                 ELSE NoOp
    /\ prevToggle' = IF lastOp.name = "toggleFav" THEN lastOp ELSE NoOp
    /\ exported' = IF op.name = "export" THEN contacts ELSE exported
    /\ saved' = (saved \/ op.name = "save")
    /\ UNCHANGED <<failedDeletes, anyFailed>>

Budget(s, t, d, i, e) == [save |-> s, toggle |-> t, delete |-> d, imports |-> i, touch |-> e]

\* the runs explored: saving and deleting, toggling, the spreadsheet, the form
Budgets ==
    { Budget(MaxSaves, 0, MaxDeletes, 0, MaxTouches),
      Budget(0, MaxToggles, 0, 0, MaxTouches),
      Budget(0, 0, 0, MaxImports, MaxTouches),
      Budget(MaxSaves, 0, 0, 0, MaxEdits) }

CanTouch == quota.touch > 0

(* -------------------------------- render ------------------------------- *)
\* line 241 and the JSX conditions of lines 270 and 317
HeaderRendered == ~crashed /\ error = "null"
ListRendered == HeaderRendered /\ ~loading /\ view = "list"
FormRendered == HeaderRendered /\ view = "form"

\* every state change re-renders App: filteredContacts is recomputed, and a
\* throwing render unmounts the tree (there is no error boundary)
Render ==
    /\ filteredContacts' = FilteredContacts(contacts', search', showCollection')
    /\ crashed' = (crashed \/ RenderThrows(contacts'))

\* While the list is shown no code reads formData: the form is the only reader
\* and openForm, the only setView("form"), assigns formData first. The model
\* keeps the blank draft for the value the program holds meanwhile.
Unread == BlankDraft(FALSE)
UnreadAlias == [cid |-> NullId, pos |-> <<0>>]

\* the collection was replaced by fresh objects: the draft shares none of them
Unshared(al) == [cid |-> NullId, pos |-> [j \in 1..Len(al.pos) |-> 0]]
\* every method object of draft d is the object at the same position of contact cid
AliasAll(cid, d) == [cid |-> cid, pos |-> [j \in 1..Len(d.methods) |-> j]]

(* --------------------------------- Init -------------------------------- *)
\* after the first render and its effect: fetchContacts() has set loading and
\* issued its GET; the closure of that fetchContacts holds contacts = []
Init ==
    /\ contacts = <<>>
    /\ loading = TRUE
    /\ error = "null"
    /\ view = "list"
    /\ showCollection = FALSE
    /\ search = <<>>
    /\ libLoaded = FALSE
    /\ formData = BlankDraft(FALSE)
    /\ alias = [cid |-> NullId, pos |-> <<0>>]
    /\ filteredContacts = <<>>
    /\ crashed = FALSE
    /\ clock = ClientIdBase
    /\ net = {Request(1, "GET", "fetchContacts", NullId, NoBody, TRUE, 0)}
    /\ nextReq = 2
    /\ quota \in Budgets
    /\ imports = <<>>
    /\ file = NoFile
    /\ server \in ServerInits
    /\ nextServerId = Len(server) + 1
    /\ lastOp = NoOp
    /\ prevToggle = NoOp
    /\ atOpen = <<>>
    /\ exported = <<>>
    /\ failedDeletes = {}
    /\ anyFailed = FALSE
    /\ saved = FALSE

(* ----------------------------- header actions -------------------------- *)
\* script.onload = () => setLibLoaded(true)
ScriptLoaded ==
    /\ ~crashed /\ ~libLoaded
    /\ libLoaded' = TRUE
    /\ UNCHANGED <<contacts, loading, error, view, showCollection, search, formData, alias>>
    /\ Render
    /\ UNCHANGED envVars
    /\ Hist(Op("scriptLoaded", NullId, FALSE)) /\ atOpen' = <<>>

\* the Collection button: setShowCollection(!showCollection); setView('list')
ToggleCollection ==
    /\ HeaderRendered /\ CanTouch
    /\ showCollection' = ~showCollection
    /\ view' = "list"
    /\ formData' = Unread /\ alias' = UnreadAlias
    /\ UNCHANGED <<contacts, loading, error, search, libLoaded>>
    /\ Render
    /\ quota' = [quota EXCEPT !.touch = @ - 1]
    /\ UNCHANGED <<clock, net, nextReq, imports, file, server, nextServerId>>
    /\ Hist(Op("collection", NullId, FALSE)) /\ atOpen' = <<>>

\* the search box: onChange={e => setSearch(e.target.value)}
SetSearch(s) ==
    /\ ListRendered /\ CanTouch
    /\ search' = s
    /\ UNCHANGED <<contacts, loading, error, view, showCollection, libLoaded, formData, alias>>
    /\ Render
    /\ quota' = [quota EXCEPT !.touch = @ - 1]
    /\ UNCHANGED <<clock, net, nextReq, imports, file, server, nextServerId>>
    /\ Hist(Op("search", NullId, FALSE)) /\ atOpen' = <<>>

(* ------------------------------ Form Editor ---------------------------- *)
\* openForm(contact): the draft IS the contact object (setFormData(contact))
OpenFormEdit(c) ==
    /\ ListRendered
    /\ c \in Range(filteredContacts)
    /\ formData' = c
    /\ alias' = AliasAll(c.id, c)
    /\ view' = "form"
    /\ UNCHANGED <<contacts, loading, error, showCollection, search, libLoaded>>
    /\ Render
    /\ UNCHANGED envVars
    /\ Hist(Op("openForm", c.id, c.isFav)) /\ atOpen' = <<contacts>>

\* openForm(): a fresh draft, isFav pre-set to showCollection
OpenFormNew ==
    /\ ListRendered
    /\ formData' = BlankDraft(showCollection)
    /\ alias' = [cid |-> NullId, pos |-> <<0>>]
    /\ view' = "form"
    /\ UNCHANGED <<contacts, loading, error, showCollection, search, libLoaded>>
    /\ Render
    /\ UNCHANGED envVars
    /\ Hist(Op("openForm", NullId, FALSE)) /\ atOpen' = <<contacts>>

\* a draft edit leaves everything but formData (and what it shares) alone
EditFrame ==
    /\ CanTouch
    /\ UNCHANGED <<loading, error, view, showCollection, search, libLoaded>>
    /\ Render
    /\ quota' = [quota EXCEPT !.touch = @ - 1]
    /\ UNCHANGED <<clock, net, nextReq, imports, file, server, nextServerId>>
    /\ Hist(Op("edit", formData.id, formData.isFav)) /\ atOpen' = atOpen

\* the name box: setFormData({...formData, name: e.target.value})
SetName(n) ==
    /\ FormRendered
    /\ formData' = [formData EXCEPT !.name = n]
    /\ UNCHANGED <<contacts, alias>>
    /\ EditFrame

\* the favorite checkbox: setFormData({...formData, isFav: e.target.checked})
SetFav(b) ==
    /\ FormRendered
    /\ formData' = [formData EXCEPT !.isFav = b]
    /\ UNCHANGED <<contacts, alias>>
    /\ EditFrame

\* addMethodField: a new array holding the old method objects and a fresh one
AddMethodField ==
    /\ FormRendered
    /\ Len(formData.methods) < MaxMethods
    /\ formData' = [formData EXCEPT !.methods = Append(@, Method("Phone", ""))]
    /\ alias' = [alias EXCEPT !.pos = Append(@, 0)]
    /\ UNCHANGED contacts
    /\ EditFrame

\* newMethods[index][field] = value writes into the method object itself: a
\* contact of the collection that holds this object changes with it
WriteThrough(cs, al, index, field, value) ==
    IF al.pos[index] = 0 THEN cs
    ELSE [k \in 1..Len(cs) |->
            IF cs[k].id = al.cid /\ al.pos[index] \in 1..Len(cs[k].methods)
            THEN [cs[k] EXCEPT !.methods[al.pos[index]][field] = value]
            ELSE cs[k]]

\* updateMethod(index, field, value)
UpdateMethod(index, field, value) ==
    /\ FormRendered
    /\ index \in 1..Len(formData.methods)
    /\ formData' = [formData EXCEPT !.methods[index][field] = value]
    /\ contacts' = WriteThrough(contacts, alias, index, field, value)
    /\ UNCHANGED alias
    /\ EditFrame

\* removeMethod(index): a new array without the element at index
RemoveMethod(index) ==
    /\ FormRendered
    /\ index \in 1..Len(formData.methods)
    /\ formData' = [formData EXCEPT !.methods = RemoveAt(@, index)]
    /\ alias' = [alias EXCEPT !.pos = RemoveAt(@, index)]
    /\ UNCHANGED contacts
    /\ EditFrame

\* the Cancel button: onClick={() => setView('list')}
Cancel ==
    /\ FormRendered
    /\ view' = "list"
    /\ formData' = Unread /\ alias' = UnreadAlias
    /\ UNCHANGED <<contacts, loading, error, showCollection, search, libLoaded>>
    /\ Render
    /\ UNCHANGED envVars
    /\ Hist(Op("cancel", NullId, FALSE)) /\ atOpen' = atOpen

(* ----------------------- Optimistic State Synchronizer ----------------- *)
\* contacts.map(c => c.id === x.id ? x : c)
ReplaceById(cs, x) == [k \in 1..Len(cs) |-> IF cs[k].id = x.id THEN x ELSE cs[k]]

\* contacts.filter(c => c.id !== id)
RemoveById(cs, id) == SelectSeq(cs, LAMBDA c : c.id # id)

\* mutant of NameMissing: the check of the name is left out
NameMissingNever(fd) == FALSE

\* if (!formData.name) return alert("Name is required")
NameMissing(fd) == ~TruthyName(fd.name)

\* const newContact = formData.id ? formData : { ...formData, id: Date.now() }
NewContact(fd, now) == IF fd.id # NullId THEN fd ELSE [fd EXCEPT !.id = now]

\* mutant of SaveLocal: an edited contact is appended instead of replaced
SaveLocalAppend(cs, fd, now) == Append(cs, NewContact(fd, now))

\* the optimistic update of saveContact (lines 70-74)
SaveLocal(cs, fd, now) ==
    IF fd.id # NullId THEN ReplaceById(cs, fd) ELSE Append(cs, NewContact(fd, now))

\* the request of saveContact: PUT to the id, or POST
SaveRequest(fd, empty) ==
    Request(nextReq, IF fd.id # NullId THEN "PUT" ELSE "POST", "save", fd.id,
            Content(fd), empty, 0)

\* saveContact, up to its first await
SaveContact ==
    /\ FormRendered
    /\ IF NameMissing(formData)
       THEN /\ UNCHANGED <<contacts, loading, error, view, showCollection, search,
                           libLoaded, formData, alias>>
            /\ Render
            /\ UNCHANGED envVars
            /\ Hist(Op("saveRejected", NullId, FALSE))
       ELSE /\ quota.save > 0
            /\ contacts' = SaveLocal(contacts, formData, clock)
            /\ view' = "list"
            /\ formData' = Unread /\ alias' = UnreadAlias
            /\ UNCHANGED <<loading, error, showCollection, search, libLoaded>>
            /\ Render
            /\ clock' = IF formData.id # NullId THEN clock ELSE clock + 1
            /\ net' = net \cup {SaveRequest(formData, Len(contacts) = 0)}
            /\ nextReq' = nextReq + 1
            /\ quota' = [quota EXCEPT !.save = @ - 1]
            /\ UNCHANGED <<imports, file, server, nextServerId>>
            /\ Hist(Op("save", formData.id, formData.isFav))
    /\ atOpen' = <<>>

\* mutant of Confirmed: the answer to the prompt is ignored
ConfirmedAlways(ok) == TRUE

\* if (!window.confirm("Delete this contact?")) return; ok is the user's answer
Confirmed(ok) == ok

\* deleteContact(id), up to its first await
DeleteContact(id, ok) ==
    /\ ListRendered
    /\ id \in Ids(filteredContacts)
    /\ IF ~Confirmed(ok)
       THEN /\ UNCHANGED <<contacts, loading, error, view, showCollection, search,
                           libLoaded, formData, alias>>
            /\ Render
            /\ UNCHANGED envVars
            /\ Hist(Op("deleteDeclined", NullId, FALSE))
       ELSE /\ quota.delete > 0
            /\ contacts' = RemoveById(contacts, id)
            /\ UNCHANGED <<loading, error, view, showCollection, search, libLoaded,
                           formData, alias>>
            /\ Render
            /\ net' = net \cup {Request(nextReq, "DELETE", "deleteContact", id, NoBody, FALSE, 0)}
            /\ nextReq' = nextReq + 1
            /\ quota' = [quota EXCEPT !.delete = @ - 1]
            /\ UNCHANGED <<clock, imports, file, server, nextServerId>>
            /\ Hist(Op("deleteContact", id, FALSE))
    /\ atOpen' = <<>>

\* const updated = { ...contact, isFav: !contact.isFav }
Updated(c) == [c EXCEPT !.isFav = ~c.isFav]

\* mutant of ToggleBody: the PUT carries the contact as it was before the toggle
ToggleBodyStale(c) == Content(c)

\* the body of toggleFav's PUT: JSON.stringify(updated)
ToggleBody(c) == Content(Updated(c))

\* toggleFav(contact), up to its first await
ToggleFav(c) ==
    /\ ListRendered
    /\ c \in Range(filteredContacts)
    /\ quota.toggle > 0
    /\ contacts' = ReplaceById(contacts, Updated(c))
    /\ UNCHANGED <<loading, error, view, showCollection, search, libLoaded, formData, alias>>
    /\ Render
    /\ net' = net \cup {Request(nextReq, "PUT", "toggleFav", c.id, ToggleBody(c), FALSE, 0)}
    /\ nextReq' = nextReq + 1
    /\ quota' = [quota EXCEPT !.toggle = @ - 1]
    /\ UNCHANGED <<clock, imports, file, server, nextServerId>>
    /\ Hist(Op("toggleFav", c.id, c.isFav))
    /\ atOpen' = <<>>

(* --------------------------- Spreadsheet Bridge ------------------------ *)
\* handleExport: alert while the library is loading, else write the rows
HandleExport ==
    /\ HeaderRendered /\ CanTouch
    /\ file' = IF libLoaded THEN ExportRows(contacts) ELSE file
    /\ UNCHANGED uiVars
    /\ quota' = [quota EXCEPT !.touch = @ - 1]
    /\ UNCHANGED <<clock, net, nextReq, imports, server, nextServerId>>
    /\ Hist(Op(IF libLoaded THEN "export" ELSE "exportRejected", NullId, FALSE))
    /\ atOpen' = <<>>

\* built, fromExport and from are history: the contacts reconstructed so far,
\* and the collection the rows were exported from when they are the rows of file
NewImport(data) ==
    [rows |-> data, idx |-> 0, count |-> 0, state |-> "reading", alerted |-> -1,
     built |-> <<>>, fromExport |-> (data = file),
     from |-> IF data = file THEN exported ELSE <<>>]

\* handleImport: alert while the library is loading, else hand the file to a
\* FileReader, whose onload runs later
HandleImport(data) ==
    /\ HeaderRendered
    /\ IF ~libLoaded
       THEN /\ UNCHANGED <<imports, quota>>
            /\ Hist(Op("importRejected", NullId, FALSE))
       ELSE /\ quota.imports > 0
            /\ imports' = Append(imports, NewImport(data))
            /\ quota' = [quota EXCEPT !.imports = @ - 1]
            /\ Hist(Op("import", NullId, FALSE))
    /\ UNCHANGED uiVars
    /\ UNCHANGED <<clock, net, nextReq, file, server, nextServerId>>
    /\ atOpen' = <<>>

\* one pass of the for loop of reader.onload from row i on, up to the next
\* await: append the row's contact and POST it, or, past the last row, alert
ImportLoop(k, i, cnt, flying) ==
    LET p == imports[k] IN
    IF i <= Len(p.rows)
    THEN LET newContact == ImportContact(p.rows[i]) IN
         /\ contacts' = IF crashed THEN contacts
                        ELSE Append(contacts, Contact(clock, newContact.name,
                                                      newContact.isFav, newContact.methods))
         /\ clock' = clock + 1
         /\ net' = flying \cup {Request(nextReq, "POST", "import", NullId, newContact, FALSE, k)}
         /\ nextReq' = nextReq + 1
         /\ imports' = [imports EXCEPT ![k] =
                [p EXCEPT !.idx = i, !.count = cnt, !.state = "awaiting",
                          !.built = Append(@, newContact)]]
    ELSE /\ imports' = [imports EXCEPT ![k] =
                [p EXCEPT !.idx = Len(p.rows), !.count = cnt, !.state = "done",
                          !.alerted = cnt]]
         /\ net' = flying
         /\ UNCHANGED <<contacts, clock, nextReq>>

ImportFrame ==
    /\ UNCHANGED <<loading, error, view, showCollection, search, libLoaded, formData, alias>>
    /\ Render
    /\ UNCHANGED <<quota, file, server, nextServerId>>
    /\ atOpen' = <<>>

\* reader.onload: the sheet is parsed and the loop starts at the first row
ImportOnload(k) ==
    /\ k \in 1..Len(imports)
    /\ imports[k].state = "reading"
    /\ ImportLoop(k, 1, 0, net)
    /\ ImportFrame
    /\ Hist(Op("importOnload", NullId, FALSE))

\* mutant of ImportResume: the POST is not awaited, the loop goes on while the
\* request is outstanding
ImportResumeNoAwait(r) ==
    /\ r \in net /\ r.origin = "import" /\ imports[r.imp].state = "awaiting"
    /\ ImportLoop(r.imp, imports[r.imp].idx + 1, imports[r.imp].count + 1, net)
    /\ ImportFrame
    /\ Hist(Op("importResume", NullId, FALSE))

\* the await of a row's POST returns (resolved or rejected alike): count++ and
\* the loop goes on with the next row
ImportResume(r) ==
    /\ r \in net /\ r.origin = "import" /\ r.phase # "sent"
    /\ ImportLoop(r.imp, imports[r.imp].idx + 1, imports[r.imp].count + 1, net \ {r})
    /\ ImportFrame
    /\ Hist(Op("importResume", NullId, FALSE))

(* ---------------------------- REST backend ----------------------------- *)
\* what the backend holds after serving request r
Served(r) ==
    CASE r.kind = "POST" ->
            Append(server, Contact(nextServerId, r.body.name, r.body.isFav, r.body.methods))
      [] r.kind = "PUT" ->
            ReplaceById(server, Contact(r.id, r.body.name, r.body.isFav, r.body.methods))
      [] r.kind = "DELETE" -> RemoveById(server, r.id)
      [] OTHER -> server

\* the backend serves a request: GET answers with its collection, POST stores
\* the body under a new id, PUT replaces the record of that id (there must be
\* one), DELETE removes it
ServeOk(r) ==
    /\ r \in net /\ r.phase = "sent" /\ r.origin \in {"fetchContacts", "save", "import"}
    /\ r.kind = "PUT" => r.id \in Ids(server)
    /\ server' = Served(r)
    /\ nextServerId' = IF r.kind = "POST" THEN nextServerId + 1 ELSE nextServerId
    /\ net' = (net \ {r}) \cup
              {[r EXCEPT !.phase = "ok", !.data = IF r.kind = "GET" THEN server ELSE <<>>]}
    /\ UNCHANGED <<uiVars, clock, nextReq, quota, imports, file, histVars>>

\* the request fails (no connection, or a status that is not ok): the backend
\* is left as it was
ServeFail(r) ==
    /\ r \in net /\ r.phase = "sent" /\ r.origin \in {"fetchContacts", "save", "import"}
    /\ net' = (net \ {r}) \cup {[r EXCEPT !.phase = "failed"]}
    /\ anyFailed' = TRUE
    /\ UNCHANGED <<uiVars, clock, nextReq, quota, imports, file, server, nextServerId>>
    /\ UNCHANGED <<lastOp, prevToggle, atOpen, exported, failedDeletes, saved>>

(* --------------------------- continuations ----------------------------- *)
\* mutant of FetchResult: a response that is ok is not set as the collection
FetchResultKeeps(r, cs) ==
    IF r.phase # "ok" /\ r.wasEmpty THEN Placeholder ELSE cs

\* fetchContacts past its await: setContacts(data) on success; on failure the
\* placeholder, when the contacts of the closure were empty; setLoading(false)
FetchResult(r, cs) ==
    IF r.phase = "ok" THEN r.data
    ELSE IF r.wasEmpty THEN Placeholder ELSE cs

\* mutant of FetchFinally: loading is left as it is
FetchFinallyKeeps(ld) == ld

\* finally { setLoading(false) }
FetchFinally(ld) == FALSE

FetchDone(r) ==
    /\ r \in net /\ r.kind = "GET" /\ r.phase # "sent"
    /\ IF crashed
       THEN UNCHANGED <<contacts, loading, alias>>
       ELSE /\ contacts' = FetchResult(r, contacts)
            /\ loading' = FetchFinally(loading)
            /\ alias' = IF r.phase = "ok" \/ r.wasEmpty THEN Unshared(alias) ELSE alias
    /\ UNCHANGED <<error, view, showCollection, search, libLoaded, formData>>
    /\ Render
    /\ net' = net \ {r}
    /\ UNCHANGED <<clock, nextReq, quota, imports, file, server, nextServerId>>
    /\ Hist(Op(IF r.phase = "ok" THEN "fetchOk" ELSE "fetchFailed", NullId, FALSE))
    /\ atOpen' = <<>>

\* mutant of SaveDone: a failed save refreshes the list too
SaveDoneRefetchAlways(r) ==
    /\ r \in net /\ r.origin = "save" /\ r.phase # "sent"
    /\ loading' = IF crashed THEN loading ELSE TRUE
    /\ net' = (net \ {r}) \cup
              {Request(nextReq, "GET", "fetchContacts", NullId, NoBody, r.wasEmpty, 0)}
    /\ nextReq' = nextReq + 1
    /\ UNCHANGED <<contacts, error, view, showCollection, search, libLoaded, formData, alias>>
    /\ Render
    /\ UNCHANGED <<clock, quota, imports, file, server, nextServerId>>
    /\ Hist(Op(IF r.phase = "ok" THEN "saveOk" ELSE "saveFailed", r.id, FALSE))
    /\ atOpen' = <<>>

\* saveContact past its await: a response that is ok calls fetchContacts(),
\* which sets loading and issues its GET; anything else is caught and logged
SaveDone(r) ==
    /\ r \in net /\ r.origin = "save" /\ r.phase # "sent"
    /\ IF r.phase = "ok"
       THEN /\ loading' = IF crashed THEN loading ELSE TRUE
            /\ net' = (net \ {r}) \cup
                      {Request(nextReq, "GET", "fetchContacts", NullId, NoBody, r.wasEmpty, 0)}
            /\ nextReq' = nextReq + 1
       ELSE /\ net' = net \ {r}
            /\ UNCHANGED <<loading, nextReq>>
    /\ UNCHANGED <<contacts, error, view, showCollection, search, libLoaded, formData, alias>>
    /\ Render
    /\ UNCHANGED <<clock, quota, imports, file, server, nextServerId>>
    /\ Hist(Op(IF r.phase = "ok" THEN "saveOk" ELSE "saveFailed", r.id, FALSE))
    /\ atOpen' = <<>>

\* mutant of WriteDone: a DELETE that failed puts the record back
WriteDoneRollback(r, ok) ==
    /\ r \in net /\ r.origin \in {"deleteContact", "toggleFav"}
    /\ (ok /\ r.kind = "PUT") => r.id \in Ids(server)
    /\ server' = IF ok THEN Served(r) ELSE server
    /\ failedDeletes' = IF ~ok /\ r.kind = "DELETE" THEN failedDeletes \cup {r.id}
                        ELSE failedDeletes
    /\ anyFailed' = (anyFailed \/ ~ok)
    /\ net' = net \ {r}
    /\ contacts' = IF ~ok /\ r.kind = "DELETE" /\ r.id \notin Ids(contacts)
                   THEN contacts \o SelectSeq(server, LAMBDA c : c.id = r.id)
                   ELSE contacts
    /\ UNCHANGED <<loading, error, view, showCollection, search, libLoaded, formData, alias>>
    /\ Render
    /\ UNCHANGED <<clock, nextReq, quota, imports, file, nextServerId>>
    /\ UNCHANGED <<lastOp, prevToggle, atOpen, exported, saved>>

\* deleteContact and toggleFav past their await: nothing but a warning on
\* rejection. The continuation changes no state, so the request is taken out of
\* net in the step in which the backend serves (ok) or fails it.
WriteDone(r, ok) ==
    /\ r \in net /\ r.origin \in {"deleteContact", "toggleFav"}
    /\ (ok /\ r.kind = "PUT") => r.id \in Ids(server)
    /\ server' = IF ok THEN Served(r) ELSE server
    /\ failedDeletes' = IF ~ok /\ r.kind = "DELETE" THEN failedDeletes \cup {r.id}
                        ELSE failedDeletes
    /\ anyFailed' = (anyFailed \/ ~ok)
    /\ net' = net \ {r}
    /\ UNCHANGED <<uiVars, clock, nextReq, quota, imports, file, nextServerId>>
    /\ UNCHANGED <<lastOp, prevToggle, atOpen, exported, saved>>

(* ------------------------------ specification -------------------------- *)
Next ==
    \/ ScriptLoaded
    \/ ToggleCollection
    \/ \E s \in SearchInputs : SetSearch(s)
    \/ \E c \in Range(filteredContacts) : OpenFormEdit(c)
    \/ OpenFormNew
    \/ \E n \in NameInputs : SetName(n)
    \/ \E b \in BOOLEAN : SetFav(b)
    \/ AddMethodField
    \/ \E i \in 1..MaxMethods, t \in TypeInputs : UpdateMethod(i, "type", t)
    \/ \E i \in 1..MaxMethods, v \in ValInputs : UpdateMethod(i, "val", v)
    \/ \E i \in 1..MaxMethods : RemoveMethod(i)
    \/ Cancel
    \/ SaveContact
    \/ \E id \in Ids(filteredContacts), ok \in BOOLEAN : DeleteContact(id, ok)
    \/ \E c \in Range(filteredContacts) : ToggleFav(c)
    \/ HandleExport
    \/ \E data \in UserFiles \cup ({file} \ {NoFile}) : HandleImport(data)
    \/ \E k \in 1..Len(imports) : ImportOnload(k)
    \/ \E r \in net : ImportResume(r)
    \/ \E r \in net : ServeOk(r)
    \/ \E r \in net : ServeFail(r)
    \/ \E r \in net : FetchDone(r)
    \/ \E r \in net : SaveDone(r)
    \/ \E r \in net, ok \in BOOLEAN : WriteDone(r, ok)

Spec == Init /\ [][Next]_vars

(* ================================ claims =============================== *)
Pos(cs, id) == CHOOSE i \in 1..Len(cs) : cs[i].id = id
GetsInFlight == {r \in net : r.kind = "GET"}

\* C1: after draft edits followed by Cancel the view is list and every contact
\* of the collection has the name, isFav and methods it had when the form was
\* opened. (atOpen is the collection at openForm; only draft edits, steps of the
\* backend and Cancel keep it.)
C1_CancelLeavesCollection ==
    (lastOp.name = "cancel" /\ atOpen # <<>>) =>
        (view = "list" /\ Contents(contacts) = Contents(atOpen[1]))

\* C2: a Save with an empty draft name changes neither the collection nor the
\* view and issues no request.
C2_EmptyNameSaveRejected ==
    [][(SaveContact /\ formData.name = <<>>) =>
        (contacts' = contacts /\ view' = "form" /\ net' = net /\ nextReq' = nextReq)]_vars

C2_Witness ==
    /\ lastOp.name = "saveRejected" /\ formData.name = <<>> /\ view = "form"
    /\ contacts # <<>>

\* C3: a delete whose prompt is declined changes nothing in the collection and
\* issues no request.
C3_DeclinedDeleteNoEffect ==
    [][(\E id \in Ids(filteredContacts) : DeleteContact(id, FALSE)) =>
        (contacts' = contacts /\ net' = net /\ nextReq' = nextReq)]_vars

C3_Witness == lastOp.name = "deleteDeclined" /\ contacts # <<>> /\ quota.delete > 0

\* C4: after two toggles in a row on contact C, C's isFav is what it was before
\* the first, and the two toggles issued exactly two PUTs for C's id, each with
\* the full record as that toggle left it.
C4_ToggleTwice ==
    (lastOp.name = "toggleFav" /\ prevToggle.name = "toggleFav" /\ prevToggle.id = lastOp.id) =>
        /\ lastOp.id \in Ids(contacts)
        /\ LET c == contacts[Pos(contacts, lastOp.id)] IN
            /\ c.isFav = prevToggle.fav
            /\ Cardinality(prevToggle.sent) = 1 /\ Cardinality(lastOp.sent) = 1
            /\ \A r \in prevToggle.sent :
                    r.kind = "PUT" /\ r.id = c.id
                    /\ r.body = Content([c EXCEPT !.isFav = ~prevToggle.fav])
            /\ \A r \in lastOp.sent :
                    r.kind = "PUT" /\ r.id = c.id /\ r.body = Content(c)

C4_Witness ==
    /\ lastOp.name = "toggleFav" /\ prevToggle.name = "toggleFav"
    /\ prevToggle.id = lastOp.id /\ Len(contacts) >= 2

\* C5 (as stated): a contact whose DELETE failed is absent from the collection
\* in every later state.
C5_StaysDeletedForever == \A id \in failedDeletes : id \notin Ids(contacts)

\* C5 (amended): a confirmed delete removes the contact, the failure of its
\* DELETE puts nothing back, and afterwards only the completion of a fetch-all
\* brings the contact back into the collection.
C5_OnlyFetchBringsBack ==
    [][/\ \A id \in Ids(contacts) : DeleteContact(id, TRUE) => id \notin Ids(contacts')
       /\ \A id \in failedDeletes' :
            (id \notin Ids(contacts) /\ id \in Ids(contacts')) =>
                (\E r \in GetsInFlight : r.phase # "sent" /\ r \notin net')]_vars

C5_Witness ==
    /\ \E id \in failedDeletes : id \notin Ids(contacts) /\ id \in Ids(server)
    /\ quota.save = 0 /\ net = {}

\* C6: no two contacts of the collection have the same id (client ids come from
\* a clock that never repeats and differ from the ids the backend assigns).
C6_UniqueIds ==
    \A i, j \in 1..Len(contacts) : i # j => contacts[i].id # contacts[j].id

C6_Witness ==
    /\ Len(contacts) >= 3
    /\ \E i, j \in 1..Len(contacts) : contacts[i].id < ClientIdBase /\ contacts[j].id >= ClientIdBase

\* C7: the contacts an import reconstructs from the rows of an export have,
\* position by position, the name, isFav and methods of the exported contacts.
C7_ExportImportRoundTrip ==
    \A k \in 1..Len(imports) :
        imports[k].fromExport =>
            /\ Len(imports[k].built) <= Len(imports[k].from)
            /\ \A j \in 1..Len(imports[k].built) :
                    imports[k].built[j] = Content(imports[k].from[j])
            /\ imports[k].state = "done" => Len(imports[k].built) = Len(imports[k].from)

C7_Witness ==
    \E k \in 1..Len(imports) :
        /\ imports[k].fromExport /\ imports[k].state = "done"
        /\ Len(imports[k].from) >= 2
        /\ \E j \in 1..Len(imports[k].from) :
                imports[k].from[j].isFav /\ Len(imports[k].from[j].methods) >= 1
        /\ \E j \in 1..Len(imports[k].from) : ~imports[k].from[j].isFav

\* name contains term as a substring, letter case aside
ContainsIgnoringCase(name, term) ==
    \E off \in 0..(Len(name) - Len(term)) :
        \A j \in 1..Len(term) : LowerChar(name[off + j]) = LowerChar(term[j])

Shown(c) == ContainsIgnoringCase(c.name, search) /\ (showCollection => c.isFav)

\* C8: the displayed list holds exactly the contacts whose name contains the
\* search string, letter case aside, and that are favorites when the collection
\* mode is on; every contact when the mode is off and the search is empty.
C8_FilterExact ==
    ~crashed =>
        /\ \A i \in 1..Len(contacts) :
                Shown(contacts[i]) <=> (contacts[i] \in Range(filteredContacts))
        /\ Range(filteredContacts) \subseteq Range(contacts)
        /\ Len(filteredContacts) = Cardinality(Range(filteredContacts))
        /\ (~showCollection /\ search = <<>>) => Len(filteredContacts) = Len(contacts)

C8_Witness ==
    /\ ~crashed /\ search = <<"B">>
    /\ filteredContacts # <<>> /\ Len(filteredContacts) < Len(contacts)

\* C9: in the displayed list every favorite precedes every non-favorite, the
\* contacts of each group keep the order they have in the collection, and a
\* step that only recomputes the list (a new search string, a change of the
\* collection mode) leaves the collection as it is.
C9_StablePartition ==
    /\ [](\A i, j \in 1..Len(filteredContacts) :
            i < j =>
                /\ ~(~filteredContacts[i].isFav /\ filteredContacts[j].isFav)
                /\ (filteredContacts[i].isFav = filteredContacts[j].isFav) =>
                        Pos(contacts, filteredContacts[i].id)
                            < Pos(contacts, filteredContacts[j].id))
    /\ [][(search' # search \/ showCollection' # showCollection) => contacts' = contacts]_vars

C9_Witness ==
    /\ Len(filteredContacts) >= 3
    /\ \E i, j \in 1..Len(contacts) :
            /\ i < j /\ ~contacts[i].isFav /\ contacts[j].isFav
            /\ contacts[i] \in Range(filteredContacts) /\ contacts[j] \in Range(filteredContacts)

\* C10 (as stated): while a request is outstanding the actions of the view
\* that is selected are available.
C10_NeverBlocked ==
    (net # {} /\ ~crashed) =>
        /\ view = "list" => ListRendered
        /\ view = "form" => FormRendered

\* C10 (amended): while requests are outstanding the header and an open form
\* stay available, and the list view's actions are available unless a
\* fetch-all is outstanding: loading is true only while one is.
C10_BlockedOnlyByFetch ==
    (net # {} /\ ~crashed) =>
        /\ HeaderRendered
        /\ view = "form" => FormRendered
        /\ (view = "list" /\ GetsInFlight = {}) => ListRendered
        /\ loading => GetsInFlight # {}

C10_Witness ==
    /\ \E r \in net : r.kind \in {"POST", "PUT", "DELETE"} /\ r.phase = "sent"
    /\ GetsInFlight = {} /\ ListRendered /\ contacts # <<>>

\* the requests issued by a step, and the fetch-alls among them
Issued == {g \in net' : g.rid \notin {r.rid : r \in net}}
NewGets == {g \in Issued : g.kind = "GET"}

\* C11: after the initial load a fetch-all is issued only by the step that
\* handles a successful create or update of Save; the step that handles a
\* failed one issues none and leaves the collection and the view as they are;
\* toggle-favorite, delete and import steps issue none.
C11_RefreshOnlyAfterSavedOk ==
    [][/\ NewGets # {} =>
            \E r \in net \ net' : r.origin = "save" /\ r.phase = "ok"
       /\ \A r \in net \ net' :
            (r.origin = "save" /\ r.phase = "failed") =>
                (NewGets = {} /\ contacts' = contacts /\ view' = view /\ loading' = loading)
       /\ \A r \in Issued :
            r.origin \in {"toggleFav", "deleteContact", "import"} => NewGets = {}]_vars

\* a create failed and was handled: the synthesized record is still there, no
\* create reached the backend, nothing is in flight
C11_Witness ==
    /\ \E i \in 1..Len(contacts) : contacts[i].id >= ClientIdBase
    /\ net = {} /\ imports = <<>> /\ quota.save = 0 /\ quota.delete > 0
    /\ nextServerId = Len(server) + 1
    /\ view = "list" /\ ~loading

\* the requests of import k still in flight
ImportPosts(k) == {r \in net : r.origin = "import" /\ r.imp = k}

\* C12: every pass of an import's loop over a row appends that row's contact to
\* the collection and issues one create request, whatever became of the
\* requests before it; the notice comes after the last row's request has
\* completed or failed and reports the number of rows.
C12_ImportProcessesAllRows ==
    /\ [](\A k \in 1..Len(imports) :
            imports[k].state = "done" =>
                /\ imports[k].alerted = Len(imports[k].rows)
                /\ Len(imports[k].built) = Len(imports[k].rows)
                /\ ImportPosts(k) = {})
    /\ [][\A k \in 1..Len(imports) :
            imports'[k].idx > imports[k].idx =>
                /\ Cardinality({r \in Issued : r.kind = "POST" /\ r.imp = k}) = 1
                /\ Len(contacts') = Len(contacts) + 1
                /\ Content(contacts'[Len(contacts')])
                        = ImportContact(imports[k].rows[imports'[k].idx])]_vars

\* C13: an import has at most one create request outstanding; it is the request
\* for the row the loop stands at, and the rows before it have been processed
\* in row order.
C13_ImportSequential ==
    \A k \in 1..Len(imports) :
        LET p == imports[k] IN
        /\ Cardinality(ImportPosts(k)) <= 1
        /\ (p.state = "awaiting") <=> (ImportPosts(k) # {})
        /\ \A r \in ImportPosts(k) :
                r.kind = "POST" /\ p.idx \in 1..Len(p.rows)
                /\ r.body = ImportContact(p.rows[p.idx])
        /\ p.built = [j \in 1..p.idx |-> ImportContact(p.rows[j])]

C13_Witness ==
    \E k \in 1..Len(imports) :
        /\ imports[k].idx = 2 /\ imports[k].state = "awaiting"
        /\ imports[k].rows[1] # imports[k].rows[2]
        /\ \E r \in ImportPosts(k) : r.phase = "sent"

\* the contact of collection cs that has id
ById(cs, id) == cs[Pos(cs, id)]

\* C14: the step that issues the request of a save, a confirmed delete, a
\* toggle or an imported row is the step that changes the collection (and, for
\* a save, switches the view to list): a created or imported contact is the
\* last of the collection, an updated or toggled one is replaced by the record
\* sent, a deleted one is gone.
C14_ChangeInIssuingStep ==
    [][\A r \in Issued :
        /\ r.origin = "save" =>
                /\ view' = "list"
                /\ r.kind = "POST" =>
                        /\ Len(contacts') = Len(contacts) + 1
                        /\ Content(contacts'[Len(contacts')]) = r.body
                /\ (r.kind = "PUT" /\ r.id \in Ids(contacts)) =>
                        Content(ById(contacts', r.id)) = r.body
        /\ r.origin = "deleteContact" =>
                (r.id \in Ids(contacts) /\ r.id \notin Ids(contacts'))
        /\ r.origin = "toggleFav" =>
                /\ r.id \in Ids(contacts')
                /\ Content(ById(contacts', r.id)) = r.body
                /\ ById(contacts', r.id).isFav # ById(contacts, r.id).isFav
        /\ r.origin = "import" =>
                /\ Len(contacts') = Len(contacts) + 1
                /\ Content(contacts'[Len(contacts')]) = r.body]_vars

\* the requests whose response a step handles
Handled == {r \in net : r.rid \notin {q.rid : q \in net'}}

\* C15: the step that handles the failure of the initial fetch-all sets the
\* collection to the placeholder dataset, shows no error and ends the loading
\* state, so that the list view is rendered when it is the view selected.
C15_InitialFailureGivesPlaceholder ==
    [][\A r \in Handled :
        (r.rid = 1 /\ r.kind = "GET" /\ r.phase = "failed") =>
            /\ contacts' = Placeholder
            /\ error' = "null"
            /\ ~loading'
            /\ view' = "list" => ListRendered']_vars

\* a cell that is present and not empty
Present(v) == v # Absent /\ v # ""

\* the number of leading method type columns that are present and not empty
LeadingTypes(row) ==
    CHOOSE k \in 0..Len(row.MType) :
        /\ \A n \in 1..k : Present(row.MType[n])
        /\ k < Len(row.MType) => ~Present(row.MType[k + 1])

\* the contact the import is to reconstruct from a row
Reconstructed(row) ==
    [name |-> row.FullName,
     isFav |-> (row.IsFavorite = "Yes"),
     methods |-> [n \in 1..LeadingTypes(row) |->
                    Method(row.MType[n],
                           IF Cell(row.MValue, n) = Absent THEN "" ELSE Cell(row.MValue, n))]]

\* C16: the contact built from every imported row has the row's Full Name,
\* is a favorite exactly when Is Favorite is "Yes", and has the methods of the
\* leading type columns that are present and not empty, each with its value,
\* or "" when the value is absent.
C16_ImportReconstruction ==
    \A k \in 1..Len(imports) :
        \A j \in 1..Len(imports[k].built) :
            imports[k].built[j] = Reconstructed(imports[k].rows[j])

\* C17: the step that handles a failed fetch-all leaves a collection that is
\* not empty as it is.
C17_FailedFetchKeepsContacts ==
    [][\A r \in Handled :
        (r.kind = "GET" /\ r.phase = "failed" /\ contacts # <<>>) =>
            contacts' = contacts]_vars

\* C18 (as stated): when no request has failed, a Save has been made, no request is
\* outstanding and the list is shown, the collection is the backend's
\* collection.
C18_SettledEqualsServer ==
    (~anyFailed /\ saved /\ net = {} /\ imports = <<>> /\ ListRendered) =>
        contacts = server

WritesInFlight == {r \in net : r.kind # "GET"}

\* C18 (amended): a fetch-all is answered with the backend's collection of that
\* moment, and the step that handles the answer sets it as the collection; the
\* collection is then the backend's collection when no write reached the
\* backend since the answer and none is outstanding. (No import has been
\* started.)
C18_FetchSetsSnapshot ==
    [][/\ \A r \in net : \A q \in net' :
            (q.rid = r.rid /\ r.kind = "GET" /\ r.phase = "sent" /\ q.phase = "ok") =>
                q.data = server
       /\ \A r \in Handled :
            (r.kind = "GET" /\ r.phase = "ok" /\ imports = <<>>) =>
                /\ contacts' = r.data
                /\ (r.data = server /\ WritesInFlight = {}) => contacts' = server']_vars

\* after a create and its refresh, nothing having failed: the created contact
\* has the backend's id and the collection is the backend's
C18_Witness ==
    /\ saved /\ ~anyFailed /\ net = {} /\ imports = <<>> /\ ListRendered
    /\ Len(contacts) >= 3 /\ contacts = server

\* C19: every contact of the collection has a name that is a string, and no
\* render has thrown.
C19_NamesAreStrings ==
    /\ \A i \in 1..Len(contacts) : contacts[i].name # Undefined
    /\ ~crashed

====
